---- MODULE Spec2Model ----
(***************************************************************************)
(* A model of autogen/src/header.rs: the generator that turns the SPIR-V   *)
(* grammar into the `spirv` header (value enums, bitflags, the Op enum,    *)
(* extended-instruction-set enums), together with the behaviour of the     *)
(* conversion functions the generated code contains (from_i64, from_u64,   *)
(* from_str).                                                              *)
(*                                                                         *)
(* A TokenStream is modelled by the data it is built from: an enum         *)
(* declaration is a record of its discriminants, alias constants and match *)
(* arms.  Attributes and doc comments are constant text and are left out.  *)
(* A panic of the generator (an invalid identifier handed to as_ident, a   *)
(* slice out of range) ends the run with no output.                        *)
(***************************************************************************)
EXTENDS Integers, Sequences, FiniteSets, TLC

VARIABLES entry, input, pc, i, locals, output, result

vars == <<entry, input, pc, i, locals, output, result>>

(***************************************************************************)
(* Bounds of the model.                                                    *)
(***************************************************************************)
MaxEnumerants == 3
MaxInsts == 3
MaxKinds == 3
MaxValue == 1

(***************************************************************************)
(* Inputs: the grammar structures (crate::structs) the generator reads.    *)
(***************************************************************************)
Symbols == <<"Cube", "1D", "Rect", "Buffer">>
BitSymbols == <<"None", "NotNaN", "Bias", "Aligned">>
OpNames == <<"OpNop", "OpUndef", "OpSource", "OpName">>
ExtOpNames == <<"Round", "Trunc", "FAbs", "Floor">>
Values == 0..MaxValue

\* The parameter lists of the enumerants of a bit enum.
ParamLists ==
    { <<>>,
      <<[kind |-> "IdRef", quantifier |-> "One"]>>,
      <<[kind |-> "LiteralInteger", quantifier |-> "ZeroOrOne"],
        [kind |-> "IdRef", quantifier |-> "ZeroOrMore"]>> }

\* The parameter lists of the enumerants of a value enum.
ValueParamLists ==
    { <<>>,
      <<[kind |-> "LiteralInteger", quantifier |-> "ZeroOrOne"],
        [kind |-> "IdRef", quantifier |-> "ZeroOrMore"]>> }

Gatings ==
    { [capabilities |-> <<>>, extensions |-> <<>>],
      [capabilities |-> <<"Shader">>, extensions |-> <<"SPV_KHR_shader_clock">>] }

NoGating == { [capabilities |-> <<>>, extensions |-> <<>>] }

\* The symbol positions of n entries: strictly increasing positions in a
\* tuple of names, so the symbols of one kind (the names of one table) are
\* pairwise distinct.  The generator never compares two symbols.
Positions(names, n) ==
    { s \in [1..n -> 1..Len(names)] : \A k \in 1..(n - 1) : s[k] < s[k + 1] }

\* A sequence of structs::Enumerant: the symbols at the positions s, the
\* values, parameters and gatings of f.
Enumerants(names, s, f) ==
    [k \in DOMAIN s |->
       [symbol |-> names[s[k]],
        value |-> f[k][1],
        capabilities |-> f[k][3].capabilities,
        extensions |-> f[k][3].extensions,
        parameters |-> f[k][2]]]

\* A sequence of structs::Instruction: the names at the positions s, the
\* opcodes of f.
Instructions(names, s, f) ==
    [k \in DOMAIN s |-> [opname |-> names[s[k]], opcode |-> f[k]]]

(***************************************************************************)
(* utils::as_ident and the string helpers of the generator.                *)
(***************************************************************************)
Digits == {"0", "1", "2", "3", "4", "5", "6", "7", "8", "9"}

\* The marker an identifier carries when as_ident panicked.
BadIdent == "<panic>"

\* as_ident builds a proc_macro2 identifier with the text of s; a text that
\* is empty or starts with a digit is no identifier and the call panics.
IsIdent(s) == Len(s) > 0 /\ SubSeq(s, 1, 1) \notin Digits

as_ident(s) == IF IsIdent(s) THEN s ELSE BadIdent

\* heck's to_shouty_snake_case, tabulated on the symbols the model draws.
to_shouty_snake_case(s) ==
    CASE s = "None" -> "NONE"
      [] s = "NotNaN" -> "NOT_NA_N"
      [] s = "Bias" -> "BIAS"
      [] s = "Aligned" -> "ALIGNED"

\* str::replace
RECURSIVE replace(_, _, _)
replace(s, from, to) ==
    IF Len(s) < Len(from) THEN s
    ELSE IF SubSeq(s, 1, Len(from)) = from
         THEN to \o replace(SubSeq(s, Len(from) + 1, Len(s)), from, to)
         ELSE SubSeq(s, 1, 1) \o replace(SubSeq(s, 2, Len(s)), from, to)

\* BTreeMap::entry(key).or_insert_with(Vec::new).extend(items)
entry_extend(map, key, items) ==
    IF key \in DOMAIN map
    THEN [map EXCEPT ![key] = @ \o items]
    ELSE (key :> items) @@ map

\* BTreeMap::insert(key, value)
insert(map, key, value) == (key :> value) @@ map

\* The LogicalOperand a parameter is translated to.
logical_operand(op) ==
    [kind |-> as_ident(op.kind),
     quantifier |-> CASE op.quantifier = "One" -> "OperandQuantifier::One"
                      [] op.quantifier = "ZeroOrOne" -> "OperandQuantifier::ZeroOrOne"
                      [] op.quantifier = "ZeroOrMore" -> "OperandQuantifier::ZeroOrMore"]

\* enumerant.parameters.iter().map(..): one LogicalOperand per parameter, in order.
operand_list(parameters) ==
    [k \in 1..Len(parameters) |-> logical_operand(parameters[k])]

operand_list_panics(parameters) ==
    \E k \in 1..Len(parameters) : as_ident(parameters[k].kind) = BadIdent

(***************************************************************************)
(* gen_value_enum_operand_kind                                             *)
(***************************************************************************)
value_enum_locals ==
    [panicked |-> FALSE,
     seen_discriminator |-> <<>>,
     enumerants |-> <<>>,
     from_prim_list |-> <<>>,
     aliases |-> <<>>,
     capability_clauses |-> <<>>,
     extension_clauses |-> <<>>,
     operand_clauses |-> <<>>,
     from_str_impl |-> <<>>]

\* The name of a new discriminant: Dim's enumerants get the kind as a prefix.
discriminant_name_str(grammar, e) ==
    IF grammar.kind = "Dim" THEN "Dim" \o e.symbol ELSE e.symbol

\* alias_arm with the alias's string key bound to the alias itself.
alias_arm_own_symbol(l, e) ==
    LET discriminator == l.seen_discriminator[e.value]
        name_str == e.symbol
        symbol == as_ident(e.symbol)
    IN  IF symbol = BadIdent
        THEN [l EXCEPT !.panicked = TRUE]
        ELSE [l EXCEPT
                !.aliases = Append(@, [symbol |-> symbol, value |-> discriminator]),
                !.from_str_impl = Append(@, [key |-> name_str, result |-> symbol])]

\* alias_arm with the alias's parameters added to its discriminant's operands.
alias_arm_extends_operands(l, e) ==
    LET discriminator == l.seen_discriminator[e.value]
        name_str == e.symbol
        symbol == as_ident(e.symbol)
    IN  IF symbol = BadIdent \/ operand_list_panics(e.parameters)
        THEN [l EXCEPT !.panicked = TRUE]
        ELSE [l EXCEPT
                !.aliases = Append(@, [symbol |-> symbol, value |-> discriminator]),
                !.from_str_impl = Append(@, [key |-> name_str, result |-> discriminator]),
                !.operand_clauses = entry_extend(@, discriminator,
                                                 operand_list(e.parameters))]

\* The branch of an enumerant whose value was seen: an alias constant.
alias_arm(l, e) ==
    LET discriminator == l.seen_discriminator[e.value]
        name_str == e.symbol
        symbol == as_ident(e.symbol)
    IN  IF symbol = BadIdent
        THEN [l EXCEPT !.panicked = TRUE]
        ELSE [l EXCEPT
                !.aliases = Append(@, [symbol |-> symbol, value |-> discriminator]),
                !.from_str_impl = Append(@, [key |-> name_str, result |-> discriminator])]

\* discriminant_arm with the numeric match arm naming the raw symbol.
discriminant_arm_raw_from_prim(l, grammar, e) ==
    LET name_str == discriminant_name_str(grammar, e)
        name == as_ident(name_str)
        number == e.value
    IN  IF name = BadIdent \/ operand_list_panics(e.parameters)
        THEN [l EXCEPT !.panicked = TRUE]
        ELSE [l EXCEPT
                !.seen_discriminator = insert(@, e.value, name),
                !.enumerants = Append(@, [name |-> name, number |-> number]),
                !.from_prim_list = Append(@, [number |-> number, name |-> e.symbol]),
                !.from_str_impl = Append(@, [key |-> name_str, result |-> name]),
                !.capability_clauses = entry_extend(@, e.capabilities, <<name>>),
                !.extension_clauses = entry_extend(@, e.extensions, <<name>>),
                !.operand_clauses = entry_extend(@, name, operand_list(e.parameters))]

\* The branch of an enumerant whose value is new: a discriminant.
discriminant_arm(l, grammar, e) ==
    LET name_str == discriminant_name_str(grammar, e)
        name == as_ident(name_str)
        number == e.value
    IN  IF name = BadIdent \/ operand_list_panics(e.parameters)
        THEN [l EXCEPT !.panicked = TRUE]
        ELSE [l EXCEPT
                !.seen_discriminator = insert(@, e.value, name),
                !.enumerants = Append(@, [name |-> name, number |-> number]),
                !.from_prim_list = Append(@, [number |-> number, name |-> name]),
                !.from_str_impl = Append(@, [key |-> name_str, result |-> name]),
                !.capability_clauses = entry_extend(@, e.capabilities, <<name>>),
                !.extension_clauses = entry_extend(@, e.extensions, <<name>>),
                !.operand_clauses = entry_extend(@, name, operand_list(e.parameters))]

\* value_enum_scan without the lookup in seen_discriminator.
value_enum_scan_never_alias(l, grammar, e) == discriminant_arm(l, grammar, e)

\* One iteration of the loop over grammar.enumerants.
value_enum_scan(l, grammar, e) ==
    IF e.value \in DOMAIN l.seen_discriminator
    THEN alias_arm(l, e)
    ELSE discriminant_arm(l, grammar, e)

RECURSIVE value_enum_loop(_, _, _)
value_enum_loop(l, grammar, k) ==
    IF l.panicked \/ k > Len(grammar.enumerants) THEN l
    ELSE value_enum_loop(value_enum_scan(l, grammar, grammar.enumerants[k]),
                         grammar, k + 1)

\* The impl of num_traits::FromPrimitive: the arms of the match of from_i64.
from_primitive_impl(from_prim, kind) == [kind |-> kind, arms |-> from_prim]

\* The final quote! of gen_value_enum_operand_kind.
value_enum_quote(l, grammar) ==
    [decl |-> "enum",
     name |-> as_ident(grammar.kind),
     enumerants |-> l.enumerants,
     aliases |-> l.aliases,
     from_prim_impl |-> from_primitive_impl(l.from_prim_list, as_ident(grammar.kind)),
     from_str |-> l.from_str_impl]

Panicked == [tag |-> "Panic"]
None == [tag |-> "None"]
Some(v) == [tag |-> "Some", value |-> v]
Pending == [tag |-> "Pending"]

gen_value_enum_operand_kind(grammar) ==
    LET l == value_enum_loop(value_enum_locals, grammar, 1)
    IN  IF as_ident(grammar.kind) = BadIdent \/ l.panicked
        THEN Panicked
        ELSE Some(<<value_enum_quote(l, grammar)>>)

(***************************************************************************)
(* gen_bit_enum_operand_kind                                               *)
(***************************************************************************)
bit_enum_locals ==
    [panicked |-> FALSE,
     elements |-> <<>>,
     operands |-> <<>>,
     additional_operands_list |-> <<>>]

\* One iteration of the loop over grammar.enumerants.  The parameters are a
\* lazy iterator that only the quote! of a non-empty list consumes.
bit_enum_scan(l, e) ==
    LET symbol == as_ident(replace(to_shouty_snake_case(e.symbol), "NA_N", "NAN"))
        value == e.value
    IN  IF symbol = BadIdent
           \/ (e.parameters # <<>> /\ operand_list_panics(e.parameters))
        THEN [l EXCEPT !.panicked = TRUE]
        ELSE IF e.parameters # <<>>
        THEN [l EXCEPT
                !.elements = Append(@, [symbol |-> symbol, value |-> value]),
                !.additional_operands_list = Append(@, symbol),
                !.operands = Append(@, [flag |-> symbol,
                                        operands |-> operand_list(e.parameters)])]
        ELSE [l EXCEPT
                !.elements = Append(@, [symbol |-> symbol, value |-> value])]

RECURSIVE bit_enum_loop(_, _, _)
bit_enum_loop(l, grammar, k) ==
    IF l.panicked \/ k > Len(grammar.enumerants) THEN l
    ELSE bit_enum_loop(bit_enum_scan(l, grammar.enumerants[k]), grammar, k + 1)

\* The final quote! of gen_bit_enum_operand_kind: the bitflags! struct alone.
bit_enum_quote(l, grammar) ==
    [decl |-> "bitflags",
     name |-> as_ident(grammar.kind),
     elements |-> l.elements]

gen_bit_enum_operand_kind(grammar) ==
    LET l == bit_enum_loop(bit_enum_locals, grammar, 1)
    IN  IF l.panicked \/ as_ident(grammar.kind) = BadIdent
        THEN Panicked
        ELSE Some(<<bit_enum_quote(l, grammar)>>)

(***************************************************************************)
(* gen_operand_kind                                                        *)
(***************************************************************************)
\* gen_operand_kind with a placeholder for the kinds of the other categories.
gen_operand_kind_placeholder(grammar) ==
    CASE grammar.category = "BitEnum" -> gen_bit_enum_operand_kind(grammar)
      [] grammar.category = "ValueEnum" -> gen_value_enum_operand_kind(grammar)
      [] OTHER -> Some(<<[decl |-> "skipped", name |-> grammar.kind]>>)

gen_operand_kind(grammar) ==
    CASE grammar.category = "BitEnum" -> gen_bit_enum_operand_kind(grammar)
      [] grammar.category = "ValueEnum" -> gen_value_enum_operand_kind(grammar)
      [] OTHER -> None

(***************************************************************************)
(* gen_spirv_header                                                        *)
(***************************************************************************)
HexDigits == "0123456789ABCDEF"

RECURSIVE upper_hex(_, _)
upper_hex(n, width) ==
    IF width = 0 THEN ""
    ELSE upper_hex(n \div 16, width - 1) \o SubSeq(HexDigits, (n % 16) + 1, (n % 16) + 1)

\* format!("{:#010X}", n) of a u32: "0x" and eight upper-case hex digits.
format_magic_number(n) == "0x" \o upper_hex(n, 8)

header_locals ==
    [panicked |-> FALSE,
     seen_discriminator |-> <<>>,
     opcodes |-> <<>>,
     aliases |-> <<>>,
     from_prim_list |-> <<>>]

\* One iteration of the loop over grammar.instructions.
header_scan(l, inst) ==
    LET opname == IF Len(inst.opname) < 2 THEN BadIdent
                  ELSE as_ident(SubSeq(inst.opname, 3, Len(inst.opname)))
        opcode == inst.opcode
    IN  IF opname = BadIdent
        THEN [l EXCEPT !.panicked = TRUE]
        ELSE IF opcode \in DOMAIN l.seen_discriminator
        THEN [l EXCEPT
                !.aliases = Append(@, [symbol |-> opname,
                                       value |-> l.seen_discriminator[opcode]])]
        ELSE [l EXCEPT
                !.opcodes = Append(@, [name |-> opname, number |-> opcode]),
                !.from_prim_list = Append(@, [number |-> opcode, name |-> opname]),
                !.seen_discriminator = insert(@, opcode, opname)]

\* grammar.operand_kinds.iter().filter_map(gen_operand_kind), from kind k on.
RECURSIVE filter_map_kinds(_, _)
filter_map_kinds(operand_kinds, k) ==
    IF k > Len(operand_kinds) THEN Some(<<>>)
    ELSE LET head == gen_operand_kind(operand_kinds[k])
             rest == filter_map_kinds(operand_kinds, k + 1)
         IN  IF head.tag = "Panic" \/ rest.tag = "Panic" THEN Panicked
             ELSE IF head.tag = "None" THEN rest
             ELSE Some(head.value \o rest.value)

\* The final quote! of gen_spirv_header.
header_quote(l, grammar) ==
    LET kinds == filter_map_kinds(grammar.operand_kinds, 1)
    IN  IF kinds.tag = "Panic" THEN Panicked
        ELSE Some(<<[decl |-> "consts",
                     MAGIC_NUMBER |-> format_magic_number(grammar.magic_number),
                     MAJOR_VERSION |-> grammar.major_version,
                     MINOR_VERSION |-> grammar.minor_version,
                     REVISION |-> grammar.revision]>>
                  \o kinds.value
                  \o <<[decl |-> "enum",
                        name |-> "Op",
                        enumerants |-> l.opcodes,
                        aliases |-> l.aliases,
                        from_prim_impl |-> from_primitive_impl(l.from_prim_list, "Op")]>>)

(***************************************************************************)
(* gen_opcodes                                                             *)
(***************************************************************************)
gen_opcodes(op, grammar, comment) ==
    LET insts == grammar.instructions
        opcodes == [k \in 1..Len(insts) |->
                      [name |-> as_ident(insts[k].opname), number |-> insts[k].opcode]]
        from_prim_list == [k \in 1..Len(insts) |->
                      [number |-> insts[k].opcode, name |-> as_ident(insts[k].opname)]]
    IN  IF as_ident(op) = BadIdent
           \/ \E k \in 1..Len(insts) : as_ident(insts[k].opname) = BadIdent
        THEN Panicked
        ELSE Some(<<[decl |-> "enum",
                     doc |-> comment,
                     name |-> as_ident(op),
                     enumerants |-> opcodes,
                     from_prim_impl |-> from_primitive_impl(from_prim_list, as_ident(op))]>>)

(***************************************************************************)
(* The generated conversions.  A 64-bit integer is four 16-bit limbs, most *)
(* significant first; a u32 is a natural number.                           *)
(***************************************************************************)
\* n as u32: the low 32 bits.
as_u32(n) == n[3] * (2 ^ 16) + n[4]

\* n as i64 of a u64: the same 64 bits.
as_i64(n) == <<n[1], n[2], n[3], n[4]>>

Minimum(S) == CHOOSE x \in S : \A y \in S : x <= y

\* fn from_i64(n: i64): match n as u32 { arms, _ => return None }
from_i64(impl, n) ==
    LET hits == { k \in 1..Len(impl.arms) : impl.arms[k].number = as_u32(n) }
    IN  IF hits = {} THEN None ELSE Some(impl.arms[Minimum(hits)].name)

\* fn from_u64(n: u64): Self::from_i64(n as i64)
from_u64(impl, n) == from_i64(impl, as_i64(n))

Err == [tag |-> "Err"]
Ok(v) == [tag |-> "Ok", value |-> v]

\* fn from_str(s: &str): match s { arms, _ => Err(()) }
from_str(arms, s) ==
    LET hits == { k \in 1..Len(arms) : arms[k].key = s }
    IN  IF hits = {} THEN Err ELSE Ok(arms[Minimum(hits)].result)

(***************************************************************************)
(* The inputs of the entry points.                                         *)
(***************************************************************************)
\* Operand kinds a whole grammar is made of.
HeaderKinds ==
    << [category |-> "BitEnum", kind |-> "ImageOperands",
        enumerants |-> <<[symbol |-> "None", value |-> 0, capabilities |-> <<>>,
                          extensions |-> <<>>, parameters |-> <<>>],
                         [symbol |-> "Bias", value |-> 1, capabilities |-> <<"Shader">>,
                          extensions |-> <<>>,
                          parameters |-> <<[kind |-> "IdRef", quantifier |-> "One"]>>]>>],
       [category |-> "ValueEnum", kind |-> "Dim",
        enumerants |-> <<[symbol |-> "1D", value |-> 0, capabilities |-> <<>>,
                          extensions |-> <<>>, parameters |-> <<>>],
                         [symbol |-> "Cube", value |-> 1, capabilities |-> <<"Shader">>,
                          extensions |-> <<>>, parameters |-> <<>>]>>],
       [category |-> "ValueEnum", kind |-> "Decoration",
        enumerants |-> <<[symbol |-> "SpecId", value |-> 1, capabilities |-> <<>>,
                          extensions |-> <<>>,
                          parameters |-> <<[kind |-> "LiteralInteger",
                                            quantifier |-> "One"]>>],
                         [symbol |-> "Block", value |-> 0, capabilities |-> <<>>,
                          extensions |-> <<>>, parameters |-> <<>>],
                         [symbol |-> "SpecIdKHR", value |-> 1, capabilities |-> <<>>,
                          extensions |-> <<>>, parameters |-> <<>>]>>],
       [category |-> "Id", kind |-> "IdRef", enumerants |-> <<>>],
       [category |-> "Literal", kind |-> "LiteralInteger", enumerants |-> <<>>] >>

\* Sequences of at most MaxKinds distinct operand kinds, in any order.
OperandKindSeqs ==
    UNION { { [k \in 1..n |-> HeaderKinds[s[k]]] :
              s \in { t \in [1..n -> 1..Len(HeaderKinds)] :
                        \A a, b \in 1..n : a # b => t[a] # t[b] } } :
            n \in 0..MaxKinds }

\* 64-bit arguments: small values, the same plus 2^32, and the same with
\* all upper bits set (negative as an i64).
Int64s ==
    { <<h[1], h[2], 0, v>> : h \in {<<0, 0>>, <<0, 1>>, <<65535, 65535>>},
                             v \in 0..(MaxValue + 1) }

Strs ==
    { Symbols[k] : k \in 1..Len(Symbols) }
    \cup { "Dim" \o Symbols[k] : k \in 1..Len(Symbols) }
    \cup { "cube", "" }

(***************************************************************************)
(* The state machine.                                                      *)
(***************************************************************************)
NoLocals == [panicked |-> FALSE]
NoResult == [fn |-> "none"]

\* structs::OperandKind arguments of gen_operand_kind.
InitOperandKind ==
    /\ entry = "gen_operand_kind"
    /\ \/ \E kind \in {"Dim", "Decoration"}, n \in 0..MaxEnumerants :
             \E s \in Positions(Symbols, n),
                f \in [1..n -> Values \X ValueParamLists \X Gatings] :
                input = [category |-> "ValueEnum", kind |-> kind,
                         enumerants |-> Enumerants(Symbols, s, f)]
       \/ \E n \in 0..MaxEnumerants :
             \E s \in Positions(BitSymbols, n),
                f \in [1..n -> Values \X ParamLists \X NoGating] :
                input = [category |-> "BitEnum", kind |-> "ImageOperands",
                         enumerants |-> Enumerants(BitSymbols, s, f)]
       \/ input = [category |-> "Id", kind |-> "IdRef", enumerants |-> <<>>]

\* structs::Grammar arguments of gen_spirv_header.
InitGrammar ==
    /\ entry = "gen_spirv_header"
    /\ \E ks \in OperandKindSeqs, n \in 0..MaxInsts :
          \E s \in Positions(OpNames, n), f \in [1..n -> Values] :
             input = [magic_number |-> 119734787, major_version |-> 1,
                      minor_version |-> 6, revision |-> 4,
                      operand_kinds |-> ks,
                      instructions |-> Instructions(OpNames, s, f)]

\* The arguments of gen_opcodes.
InitExtInstSet ==
    /\ entry = "gen_opcodes"
    /\ \E n \in 0..MaxInsts :
          \E s \in Positions(ExtOpNames, n), f \in [1..n -> Values] :
             input = [op |-> "GLOp", comment |-> "GLSL.std.450",
                      grammar |-> [instructions |-> Instructions(ExtOpNames, s, f)]]

\* The value enums whose generated conversions are called.
InitGeneratedEnum ==
    /\ entry = "generated_enum"
    /\ \E kind \in {"Dim", "Decoration"}, n \in 0..MaxEnumerants :
          \E s \in Positions(Symbols, n),
             f \in [1..n -> Values \X {<<>>} \X NoGating] :
             input = [category |-> "ValueEnum", kind |-> kind,
                      enumerants |-> Enumerants(Symbols, s, f)]

Init ==
    /\ \/ InitOperandKind
       \/ InitGrammar
       \/ InitExtInstSet
       \/ InitGeneratedEnum
    /\ pc = "start"
    /\ i = 0
    /\ locals = NoLocals
    /\ output = Pending
    /\ result = NoResult

\* gen_operand_kind: the match on the category.
OperandKindMatch ==
    /\ entry = "gen_operand_kind" /\ pc = "start"
    /\ CASE input.category = "BitEnum" ->
              /\ pc' = "bit_loop"
              /\ locals' = bit_enum_locals
              /\ output' = output
         [] input.category = "ValueEnum" ->
              /\ pc' = IF as_ident(input.kind) = BadIdent THEN "panicked" ELSE "value_loop"
              /\ locals' = value_enum_locals
              /\ output' = output
         [] OTHER ->
              /\ pc' = "done"
              /\ locals' = locals
              /\ output' = None
    /\ UNCHANGED <<entry, input, i, result>>

\* gen_value_enum_operand_kind: one iteration of its loop.
ValueEnumIteration ==
    /\ pc = "value_loop" /\ i < Len(input.enumerants)
    /\ LET l == value_enum_scan(locals, input, input.enumerants[i + 1])
       IN  /\ locals' = l
           /\ pc' = IF l.panicked THEN "panicked" ELSE pc
           /\ i' = IF l.panicked THEN i ELSE i + 1
    /\ UNCHANGED <<entry, input, output, result>>

\* gen_value_enum_operand_kind: the loop is over, the declarations are quoted.
ValueEnumQuote ==
    /\ pc = "value_loop" /\ i = Len(input.enumerants)
    /\ output' = Some(<<value_enum_quote(locals, input)>>)
    /\ pc' = "done"
    /\ UNCHANGED <<entry, input, i, locals, result>>

\* gen_bit_enum_operand_kind: one iteration of its loop.
BitEnumIteration ==
    /\ pc = "bit_loop" /\ i < Len(input.enumerants)
    /\ LET l == bit_enum_scan(locals, input.enumerants[i + 1])
       IN  /\ locals' = l
           /\ pc' = IF l.panicked THEN "panicked" ELSE pc
           /\ i' = IF l.panicked THEN i ELSE i + 1
    /\ UNCHANGED <<entry, input, output, result>>

\* gen_bit_enum_operand_kind: the loop is over, the bitflags! struct is quoted.
BitEnumQuote ==
    /\ pc = "bit_loop" /\ i = Len(input.enumerants)
    /\ IF as_ident(input.kind) = BadIdent
       THEN pc' = "panicked" /\ output' = output
       ELSE pc' = "done" /\ output' = Some(<<bit_enum_quote(locals, input)>>)
    /\ UNCHANGED <<entry, input, i, locals, result>>

\* gen_spirv_header: the constants are read and the opcode tables are created.
HeaderBegin ==
    /\ entry = "gen_spirv_header" /\ pc = "start"
    /\ locals' = header_locals
    /\ pc' = "inst_loop"
    /\ UNCHANGED <<entry, input, i, output, result>>

\* gen_spirv_header: one iteration of the loop over the instructions.
HeaderIteration ==
    /\ pc = "inst_loop" /\ i < Len(input.instructions)
    /\ LET l == header_scan(locals, input.instructions[i + 1])
       IN  /\ locals' = l
           /\ pc' = IF l.panicked THEN "panicked" ELSE pc
           /\ i' = IF l.panicked THEN i ELSE i + 1
    /\ UNCHANGED <<entry, input, output, result>>

\* gen_spirv_header: the final quote!, which runs the operand kinds' generators.
HeaderQuote ==
    /\ pc = "inst_loop" /\ i = Len(input.instructions)
    /\ LET out == header_quote(locals, input)
       IN  IF out.tag = "Panic"
           THEN pc' = "panicked" /\ output' = output
           ELSE pc' = "done" /\ output' = out
    /\ UNCHANGED <<entry, input, i, locals, result>>

\* gen_opcodes, as a whole.
GenOpcodes ==
    /\ entry = "gen_opcodes" /\ pc = "start"
    /\ LET out == gen_opcodes(input.op, input.grammar, input.comment)
       IN  IF out.tag = "Panic"
           THEN pc' = "panicked" /\ output' = output
           ELSE pc' = "done" /\ output' = out
    /\ UNCHANGED <<entry, input, i, locals, result>>

\* The value enum whose conversions are called is generated.
GenerateEnum ==
    /\ entry = "generated_enum" /\ pc = "start"
    /\ LET out == gen_value_enum_operand_kind(input)
       IN  IF out.tag = "Panic"
           THEN pc' = "panicked" /\ output' = output
           ELSE pc' = "generated" /\ output' = out
    /\ UNCHANGED <<entry, input, i, locals, result>>

\* A call of the generated from_i64.
CallFromI64 ==
    /\ pc = "generated"
    /\ \E n \in Int64s :
          result' = [fn |-> "from_i64", arg |-> n,
                     ret |-> from_i64(output.value[1].from_prim_impl, n)]
    /\ UNCHANGED <<entry, input, pc, i, locals, output>>

\* A call of the generated from_u64.
CallFromU64 ==
    /\ pc = "generated"
    /\ \E n \in Int64s :
          result' = [fn |-> "from_u64", arg |-> n,
                     ret |-> from_u64(output.value[1].from_prim_impl, n)]
    /\ UNCHANGED <<entry, input, pc, i, locals, output>>

\* A call of the generated from_str.
CallFromStr ==
    /\ pc = "generated"
    /\ \E s \in Strs :
          result' = [fn |-> "from_str", arg |-> s,
                     ret |-> from_str(output.value[1].from_str, s)]
    /\ UNCHANGED <<entry, input, pc, i, locals, output>>

Next ==
    \/ OperandKindMatch
    \/ ValueEnumIteration
    \/ ValueEnumQuote
    \/ BitEnumIteration
    \/ BitEnumQuote
    \/ HeaderBegin
    \/ HeaderIteration
    \/ HeaderQuote
    \/ GenOpcodes
    \/ GenerateEnum
    \/ CallFromI64
    \/ CallFromU64
    \/ CallFromStr

Spec == Init /\ [][Next]_vars

(***************************************************************************)
(* Vocabulary of the properties.                                           *)
(***************************************************************************)
\* The position of the first entry of vals equal to vals[k].
First(vals, k) == Minimum({ j \in 1..Len(vals) : vals[j] = vals[k] })

\* The positions of the entries of vals that are the first with their
\* value, in increasing order.
RECURSIVE FirstPositions(_, _)
FirstPositions(vals, n) ==
    IF n = 0 THEN <<>>
    ELSE IF First(vals, n) = n
         THEN Append(FirstPositions(vals, n - 1), n)
         ELSE FirstPositions(vals, n - 1)

EnumerantValues(es) == [k \in 1..Len(es) |-> es[k].value]
Opcodes(insts) == [k \in 1..Len(insts) |-> insts[k].opcode]

\* The canonical symbol of an enumerant of a value enum.
CanonicalSymbol(kind, symbol) == IF kind = "Dim" THEN kind \o symbol ELSE symbol

\* The symbol of an instruction of the main table: its name without "Op".
OpSymbol(opname) == SubSeq(opname, 3, Len(opname))

\* The (operand kind, quantifier) pair a parameter stands for.
OperandPair(p) == [kind |-> p.kind, quantifier |-> "OperandQuantifier::" \o p.quantifier]

\* The 64-bit integer (four 16-bit limbs) whose value is the u32 v.
Int64Of(v) == <<0, 0, v \div (2 ^ 16), v % (2 ^ 16)>>

StartsWith(s, prefix) ==
    Len(s) >= Len(prefix) /\ SubSeq(s, 1, Len(prefix)) = prefix

\* gen_value_enum_operand_kind is running on input, or has returned.
InValueEnum ==
    /\ entry = "gen_operand_kind"
    /\ input.category = "ValueEnum"
    /\ pc \in {"value_loop", "panicked", "done"}

\* gen_spirv_header is in or past its loop over the instructions.
InHeader ==
    /\ entry = "gen_spirv_header"
    /\ pc \in {"inst_loop", "panicked", "done"}

\* The discriminants d and alias constants a account for the first n entries
\* with the values vals and the symbols syms: the first entry of a value is
\* a discriminant, a later one an alias of that discriminant.
AliasingHolds(d, a, vals, syms, n) ==
    /\ \A p, q \in 1..Len(d) : p # q => d[p].number # d[q].number
    /\ Len(d) + Len(a) = n
    /\ \A k \in 1..n :
          IF First(vals, k) = k
          THEN \E p \in 1..Len(d) : d[p] = [name |-> syms[k], number |-> vals[k]]
          ELSE /\ \E q \in 1..Len(a) : a[q].value = syms[First(vals, k)]
               /\ \A p \in 1..Len(d) : d[p].number = vals[k] => d[p].name = syms[First(vals, k)]

(***************************************************************************)
(* C1.  Discriminator aliasing in gen_value_enum_operand_kind and in the   *)
(* opcode table of gen_spirv_header: after any number of scanned entries,  *)
(* the first entry met for a value is the discriminant of that value, every*)
(* later entry with the value is an alias constant bound to that first     *)
(* symbol, the discriminant values are pairwise distinct and discriminants *)
(* plus aliases count the entries scanned; the emitted enum holds exactly  *)
(* these discriminants and aliases.                                        *)
(***************************************************************************)
C1_DiscriminatorAliasing ==
    /\ InValueEnum =>
          LET es == input.enumerants
              syms == [k \in 1..Len(es) |-> CanonicalSymbol(input.kind, es[k].symbol)]
          IN  /\ AliasingHolds(locals.enumerants, locals.aliases,
                               EnumerantValues(es), syms, i)
              /\ \A k \in 1..i :
                    First(EnumerantValues(es), k) # k =>
                       \E q \in 1..Len(locals.aliases) :
                          locals.aliases[q] =
                             [symbol |-> es[k].symbol,
                              value |-> syms[First(EnumerantValues(es), k)]]
              /\ pc = "done" =>
                    /\ i = Len(es)
                    /\ output.value[1].enumerants = locals.enumerants
                    /\ output.value[1].aliases = locals.aliases
    /\ InHeader =>
          LET insts == input.instructions
              syms == [k \in 1..Len(insts) |-> OpSymbol(insts[k].opname)]
          IN  /\ AliasingHolds(locals.opcodes, locals.aliases, Opcodes(insts), syms, i)
              /\ \A k \in 1..i :
                    First(Opcodes(insts), k) # k =>
                       \E q \in 1..Len(locals.aliases) :
                          locals.aliases[q] =
                             [symbol |-> syms[k],
                              value |-> syms[First(Opcodes(insts), k)]]
              /\ pc = "done" =>
                    /\ i = Len(insts)
                    /\ output.value[Len(output.value)].enumerants = locals.opcodes
                    /\ output.value[Len(output.value)].aliases = locals.aliases

\* A value enum was emitted with two discriminants and an alias of the second.
C1_Witness ==
    /\ InValueEnum /\ pc = "done"
    /\ Len(output.value[1].enumerants) = 2
    /\ \E q \in 1..Len(output.value[1].aliases) :
          output.value[1].aliases[q].value = output.value[1].enumerants[2].name

(***************************************************************************)
(* C2.  Numeric round trip on known values: the generated from_i64 and     *)
(* from_u64 of a value enum, applied to the value of any of its enumerants *)
(* (a discriminant's or an alias's), return the canonical symbol of the    *)
(* first enumerant with that value.                                        *)
(***************************************************************************)
C2_NumericRoundTrip ==
    (entry = "generated_enum" /\ result.fn \in {"from_i64", "from_u64"}) =>
        LET es == input.enumerants
        IN  \A k \in 1..Len(es) :
               result.arg = Int64Of(es[k].value) =>
                  result.ret =
                     Some(CanonicalSymbol(input.kind,
                                          es[First(EnumerantValues(es), k)].symbol))

\* from_u64 was given the value of an alias and returned a symbol.
C2_Witness ==
    /\ entry = "generated_enum" /\ result.fn = "from_u64"
    /\ result.ret.tag = "Some"
    /\ \E k \in 1..Len(input.enumerants) :
          /\ First(EnumerantValues(input.enumerants), k) # k
          /\ result.arg = Int64Of(input.enumerants[k].value)

(***************************************************************************)
(* C3.  The numeric conversion rejects every non-discriminant: from_i64    *)
(* and from_u64 return none for every 64-bit argument that equals no       *)
(* discriminant value, negative arguments and arguments of 2^32 and more   *)
(* included.                                                               *)
(***************************************************************************)
C3_RejectsNonDiscriminants ==
    (entry = "generated_enum" /\ result.fn \in {"from_i64", "from_u64"}) =>
        ((\A k \in 1..Len(input.enumerants) :
             result.arg # Int64Of(input.enumerants[k].value))
         => result.ret = None)

(***************************************************************************)
(* C4.  String conversion of a value enum: from_str accepts exactly the    *)
(* canonical names of the discriminants and the raw names of the aliases,  *)
(* each resolving to the canonical symbol of the first enumerant with its  *)
(* value; any other string, one differing only in case included, is an     *)
(* Err(()).                                                                *)
(***************************************************************************)
C4_StringConversion ==
    (entry = "generated_enum" /\ result.fn = "from_str") =>
        LET es == input.enumerants
            vals == EnumerantValues(es)
            key(k) == IF First(vals, k) = k
                      THEN CanonicalSymbol(input.kind, es[k].symbol)
                      ELSE es[k].symbol
            named == { k \in 1..Len(es) : key(k) = result.arg }
        IN  IF named = {}
            THEN result.ret = Err
            ELSE \A k \in named :
                    result.ret = Ok(CanonicalSymbol(input.kind, es[First(vals, k)].symbol))

\* from_str was given the raw name of an alias and accepted it.
C4_Witness ==
    /\ entry = "generated_enum" /\ result.fn = "from_str"
    /\ result.ret.tag = "Ok"
    /\ \E k \in 1..Len(input.enumerants) :
          /\ First(EnumerantValues(input.enumerants), k) # k
          /\ result.arg = input.enumerants[k].symbol

(***************************************************************************)
(* C5.  Bit-enum per-flag operand lookup: the declarations produced by     *)
(* gen_bit_enum_operand_kind include a lookup with one case for each       *)
(* enumerant whose parameter list is not empty, holding that flag's        *)
(* operand list.                                                           *)
(***************************************************************************)
C5_BitEnumOperandLookup ==
    (entry = "gen_operand_kind" /\ input.category = "BitEnum" /\ pc = "done") =>
        LET d == output.value[1]
            es == input.enumerants
        IN  \A k \in 1..Len(es) :
               es[k].parameters # <<>> =>
                  /\ "operands" \in DOMAIN d
                  /\ \E c \in 1..Len(d.operands) :
                        d.operands[c].operands =
                           [j \in 1..Len(es[k].parameters) |->
                              OperandPair(es[k].parameters[j])]

(***************************************************************************)
(* C6.  gen_opcodes applies discriminator aliasing within its table: the   *)
(* emitted discriminant values, and the values of the numeric conversion's *)
(* cases, are pairwise distinct.                                           *)
(***************************************************************************)
C6_ExtTableAliasing ==
    (entry = "gen_opcodes" /\ pc = "done") =>
        LET d == output.value[1]
        IN  /\ \A p, q \in 1..Len(d.enumerants) :
                  p # q => d.enumerants[p].number # d.enumerants[q].number
            /\ \A p, q \in 1..Len(d.from_prim_impl.arms) :
                  p # q => d.from_prim_impl.arms[p].number # d.from_prim_impl.arms[q].number

(***************************************************************************)
(* C7.  Grammar-order preservation in gen_spirv_header: the output is the  *)
(* format constants, then one declaration per operand kind of category     *)
(* BitEnum or ValueEnum in the grammar's order and nothing for the other   *)
(* kinds, then the Op enum with its aliases and numeric conversion; the    *)
(* discriminants of every enumeration are in the grammar's order of their  *)
(* first occurrence.                                                       *)
(***************************************************************************)
C7_GrammarOrder ==
    (entry = "gen_spirv_header" /\ pc = "done") =>
        LET out == output.value
            emitted(k) == k.category \in {"BitEnum", "ValueEnum"}
            kinds == SelectSeq(input.operand_kinds, emitted)
            insts == input.instructions
            firsts == FirstPositions(Opcodes(insts), Len(insts))
            op == out[Len(out)]
        IN  /\ Len(out) = Len(kinds) + 2
            /\ out[1].decl = "consts"
            /\ \A j \in 1..Len(kinds) :
                  LET d == out[j + 1]
                      es == kinds[j].enumerants
                      fs == FirstPositions(EnumerantValues(es), Len(es))
                  IN  /\ d.name = kinds[j].kind
                      /\ IF kinds[j].category = "BitEnum"
                         THEN /\ d.decl = "bitflags"
                              /\ [k \in 1..Len(d.elements) |-> d.elements[k].value]
                                    = EnumerantValues(es)
                         ELSE /\ d.decl = "enum"
                              /\ [k \in 1..Len(d.enumerants) |-> d.enumerants[k].name]
                                    = [k \in 1..Len(fs) |->
                                         CanonicalSymbol(kinds[j].kind, es[fs[k]].symbol)]
            /\ op.decl = "enum" /\ op.name = "Op"
            /\ {"aliases", "from_prim_impl"} \subseteq DOMAIN op
            /\ [k \in 1..Len(op.enumerants) |-> op.enumerants[k].name]
                  = [k \in 1..Len(firsts) |-> OpSymbol(insts[firsts[k]].opname)]

\* A header was emitted for a grammar with a kind of another category
\* between two kinds that are declared, and with an aliased opcode.
C7_Witness ==
    /\ entry = "gen_spirv_header" /\ pc = "done"
    /\ Len(input.operand_kinds) = 3
    /\ input.operand_kinds[1].category \in {"BitEnum", "ValueEnum"}
    /\ input.operand_kinds[2].category \notin {"BitEnum", "ValueEnum"}
    /\ input.operand_kinds[3].category \in {"BitEnum", "ValueEnum"}
    /\ Len(output.value[Len(output.value)].aliases) > 0

(***************************************************************************)
(* C8.  Digit-prefixing: every identifier the value-enum generator emits   *)
(* for an enumerant of "Dim", discriminant or alias constant, begins with  *)
(* "Dim" and not with a digit; for any other kind the identifier is the    *)
(* raw symbol.                                                             *)
(***************************************************************************)
C8_DigitPrefixing ==
    InValueEnum =>
        LET idents == { locals.enumerants[p].name : p \in 1..Len(locals.enumerants) }
                      \cup { locals.aliases[q].symbol : q \in 1..Len(locals.aliases) }
            raw == { input.enumerants[k].symbol : k \in 1..Len(input.enumerants) }
        IN  IF input.kind = "Dim"
            THEN \A id \in idents : StartsWith(id, "Dim") /\ SubSeq(id, 1, 1) \notin Digits
            ELSE idents \subseteq raw

(***************************************************************************)
(* C9.  An unknown operand-kind reference is fatal: when a parameter of an *)
(* enumerant names an operand kind that is not among the grammar's operand *)
(* kinds, gen_spirv_header aborts and produces no output.                  *)
(***************************************************************************)
UnknownOperandKindReference(grammar) ==
    \E k \in 1..Len(grammar.operand_kinds) :
       \E e \in 1..Len(grammar.operand_kinds[k].enumerants) :
          \E p \in 1..Len(grammar.operand_kinds[k].enumerants[e].parameters) :
             \A j \in 1..Len(grammar.operand_kinds) :
                grammar.operand_kinds[j].kind
                   # grammar.operand_kinds[k].enumerants[e].parameters[p].kind

C9_UnknownKindIsFatal ==
    (entry = "gen_spirv_header" /\ UnknownOperandKindReference(input)) =>
        (pc # "done" /\ output = Pending)

(***************************************************************************)
(* C10.  First-write-wins operand metadata in the value-enum scan: after   *)
(* every iteration the operand-list table has exactly one entry per symbol *)
(* of the discriminator table, equal to the parameters of the first        *)
(* enumerant with that value translated one to one and in order; an        *)
(* iteration over an alias leaves the operand-list table, the capability   *)
(* and extension groupings, the discriminants and the numeric-conversion   *)
(* cases unchanged.                                                        *)
(***************************************************************************)
OperandTableHolds(l, es, n) ==
    LET vals == EnumerantValues(es)
        seen == l.seen_discriminator
    IN  /\ DOMAIN seen = { vals[k] : k \in 1..n }
        /\ DOMAIN l.operand_clauses = { seen[v] : v \in DOMAIN seen }
        /\ \A k \in 1..n :
              LET first == es[First(vals, k)]
              IN  l.operand_clauses[seen[vals[k]]] =
                     [j \in 1..Len(first.parameters) |-> OperandPair(first.parameters[j])]

C10_FirstWriteWins ==
    [][(InValueEnum /\ pc = "value_loop" /\ i' = i + 1) =>
          /\ OperandTableHolds(locals', input.enumerants, i')
          /\ First(EnumerantValues(input.enumerants), i') # i' =>
                /\ locals'.operand_clauses = locals.operand_clauses
                /\ locals'.capability_clauses = locals.capability_clauses
                /\ locals'.extension_clauses = locals.extension_clauses
                /\ locals'.enumerants = locals.enumerants
                /\ locals'.from_prim_list = locals.from_prim_list]_vars

\* An alias was scanned whose parameters are not those of its discriminant.
C10_Witness ==
    /\ InValueEnum /\ pc \in {"value_loop", "done"}
    /\ \E k \in 1..i :
          LET f == First(EnumerantValues(input.enumerants), k)
          IN  /\ f # k
              /\ input.enumerants[k].parameters # <<>>
              /\ input.enumerants[k].parameters # input.enumerants[f].parameters

====
